---- MODULE Spec2Model ----
(***************************************************************************)
(* Ripple-carry binary adder: numeric types (src/types.py), the bit-level  *)
(* simulation (src/binary_adder.py) and the gate-event timeline            *)
(* (src/simulation.py), and the playback of a timeline by the Tk window    *)
(* (src/main.py).                                                          *)
(*                                                                         *)
(* Python values are modelled as follows.                                  *)
(*   Optional[X]   a sequence of at most one element: <<>> is None,        *)
(*                 <<x>> is the value x                                    *)
(*   list          a sequence; Python index i is TLA+ index i + 1          *)
(*   dict          a sequence of <<key, value>> pairs in insertion order   *)
(*   dataclass     a record with the dataclass's field names               *)
(*   int           an integer (Python ints do not overflow)                *)
(*   f"SUM{idx}"   the pair <<"SUM", idx>>                                 *)
(***************************************************************************)
EXTENDS Integers, Sequences, FiniteSets, TLC

(***************************************************************************)
(* Bounds of the model.                                                    *)
(***************************************************************************)
\* Widest of the small fixed-width types whose operands are enumerated
\* exhaustively (widths 1..MaxBits, signed and unsigned).
MaxBits == 3

\* Operands are drawn from -MaxOperand..MaxOperand and from BoundaryOperands.
MaxOperand == 9

\* The unbounded type's min_value/max_value are -(1 << 63) and (1 << 63) - 1
\* in the source.  The model checker's integers have 32 bits, so the model
\* keeps the shape of that range and scales its exponent down; operands on
\* both sides of it are enumerated.
SentinelBits == 3

None == <<>>

\* Operands around the limits of the 8-bit registry types.
BoundaryOperands ==
    {-129, -128, -127, -100, 100, 127, 128, 129, 200, 255, 256, 300}

Operands == (-MaxOperand .. MaxOperand) \cup BoundaryOperands

Bit == {0, 1}

(***************************************************************************)
(* Python integer primitives.                                              *)
(***************************************************************************)
\* 1 << n
Shl1(n) == 2 ^ n

\* value & ((1 << bits) - 1): Python's & on an int of either sign with a
\* non-negative mask gives the non-negative residue.
MaskTo(value, bits) == value % Shl1(bits)

\* (value >> i) & 1 for value >= 0
BitAt(value, i) == (value \div Shl1(i)) % 2

\* int.bit_length() of a non-negative int
RECURSIVE bit_length(_)
bit_length(n) == IF n = 0 THEN 0 ELSE 1 + bit_length(n \div 2)

abs(v) == IF v < 0 THEN -v ELSE v

Xor(a, b) == (a + b) % 2
And(a, b) == a * b
Or(a, b) == IF a + b > 0 THEN 1 ELSE 0

\* bool(x) of an int
Truthy(x) == x # 0

(***************************************************************************)
(* src/types.py: NumericType                                               *)
(***************************************************************************)
NumericType(name, bits, signed) ==
    [name |-> name, bits |-> bits, signed |-> signed]

min_value(t) ==
    IF t.bits = None THEN -Shl1(SentinelBits)
    ELSE IF t.signed THEN -Shl1(t.bits[1] - 1)
    ELSE 0

max_value(t) ==
    IF t.bits = None THEN Shl1(SentinelBits) - 1
    ELSE IF t.signed THEN Shl1(t.bits[1] - 1) - 1
    ELSE Shl1(t.bits[1]) - 1

range(t) == <<min_value(t), max_value(t)>>

\* normalize without the reinterpretation of the top bit as the sign
normalize_NoSign(t, value) ==
    IF t.bits = None THEN value ELSE MaskTo(value, t.bits[1])

\* normalize that clamps to the range instead of wrapping around
normalize_Clamp(t, value) ==
    IF t.bits = None THEN value
    ELSE IF value < min_value(t) THEN min_value(t)
    ELSE IF value > max_value(t) THEN max_value(t)
    ELSE value

normalize(t, value) ==
    IF t.bits = None THEN value
    ELSE LET masked == MaskTo(value, t.bits[1])
         IN  IF t.signed /\ BitAt(masked, t.bits[1] - 1) = 1
             THEN masked - Shl1(t.bits[1])
             ELSE masked

\* OverflowError(f"value {value} does not fit into {self.name}
\* (range {min_val}..{max_val})")
EncodeError(value, type_name, min_val, max_val) ==
    [exception |-> "OverflowError", value |-> value, type_name |-> type_name,
     min_val |-> min_val, max_val |-> max_val]

\* The outcome of a call: a returned value or a raised exception.
Returns(value) == [ret |-> <<value>>, err |-> None]
Raises(exception) == [ret |-> None, err |-> <<exception>>]

\* encode with the range check left out
encode_NoCheck(t, value) ==
    IF t.bits = None THEN Returns(value)
    ELSE Returns(MaskTo(value, t.bits[1]))

encode(t, value) ==
    IF t.bits = None THEN Returns(value)
    ELSE LET min_val == range(t)[1]
             max_val == range(t)[2]
         IN  IF ~(min_val <= value /\ value <= max_val)
             THEN Raises(EncodeError(value, t.name, min_val, max_val))
             ELSE Returns(MaskTo(value, t.bits[1]))

RECURSIVE MaxAbs(_)
MaxAbs(values) ==
    IF values = <<>> THEN 0
    ELSE LET rest == MaxAbs(Tail(values))
             a == abs(Head(values))
         IN  IF a > rest THEN a ELSE rest

\* bit_length_for_values without the extra sign/carry bit
bit_length_for_values_NoExtraBit(t, values) ==
    IF t.bits # None THEN t.bits[1]
    ELSE LET needed == bit_length(MaxAbs(values))
         IN  IF needed > 1 THEN needed ELSE 1

bit_length_for_values(t, values) ==
    IF t.bits # None THEN t.bits[1]
    ELSE LET needed == bit_length(MaxAbs(values)) + 1
         IN  IF needed > 1 THEN needed ELSE 1

\* The types the simulation is run with: the unbounded "int", the 8-bit
\* types of the registry, and fixed-width types of every small width.
IntType == NumericType("int", None, TRUE)
Int8Type == NumericType("int8_t", <<8>>, TRUE)
UInt8Type == NumericType("uint8_t", <<8>>, FALSE)

SmallTypes ==
    { NumericType("int" \o ToString(n) \o "_t", <<n>>, TRUE) : n \in 1 .. MaxBits }
    \cup
    { NumericType("uint" \o ToString(n) \o "_t", <<n>>, FALSE) : n \in 1 .. MaxBits }

FixedTypes == SmallTypes \cup {Int8Type, UInt8Type}

Types == FixedTypes \cup {IntType}

(***************************************************************************)
(* src/types.py: the registry and get_numeric_type                         *)
(*                                                                         *)
(* A str whose characters the code processes (the argument of              *)
(* get_numeric_type, the keys of NUMERIC_TYPES) is a sequence of           *)
(* one-character strings; a str that is only stored and compared (the      *)
(* name field of a NumericType) is a string.                               *)
(***************************************************************************)
k_int == <<"i", "n", "t">>
k_python_int == <<"p", "y", "t", "h", "o", "n", "-", "i", "n", "t">>
k_int8_t == <<"i", "n", "t", "8", "_", "t">>
k_int8 == <<"i", "n", "t", "8">>
k_int16_t == <<"i", "n", "t", "1", "6", "_", "t">>
k_int16 == <<"i", "n", "t", "1", "6">>
k_int32_t == <<"i", "n", "t", "3", "2", "_", "t">>
k_int32 == <<"i", "n", "t", "3", "2">>
k_int64_t == <<"i", "n", "t", "6", "4", "_", "t">>
k_int64 == <<"i", "n", "t", "6", "4">>
k_uint8_t == <<"u", "i", "n", "t", "8", "_", "t">>
k_uint8 == <<"u", "i", "n", "t", "8">>
k_uint16_t == <<"u", "i", "n", "t", "1", "6", "_", "t">>
k_uint16 == <<"u", "i", "n", "t", "1", "6">>
k_uint32_t == <<"u", "i", "n", "t", "3", "2", "_", "t">>
k_uint32 == <<"u", "i", "n", "t", "3", "2">>
k_uint64_t == <<"u", "i", "n", "t", "6", "4", "_", "t">>
k_uint64 == <<"u", "i", "n", "t", "6", "4">>
k_size_t == <<"s", "i", "z", "e", "_", "t">>
k_uint == <<"u", "i", "n", "t">>
k_long == <<"l", "o", "n", "g">>
k_unsigned_long == <<"u", "n", "s", "i", "g", "n", "e", "d", " ", "l", "o", "n", "g">>
k_ulong == <<"u", "l", "o", "n", "g">>

\* One add(name, bits, signed, aliases) call of _make_types: the key is the
\* name as a sequence of characters.
Row(key, name, bits, signed, aliases) ==
    [key |-> key, name |-> name, bits |-> bits, signed |-> signed,
     aliases |-> aliases]

\* The add(...) calls of _make_types, in the order they are made.
RegistryRows ==
    <<
       Row(k_int, "int", None, TRUE, <<k_python_int>>),
       Row(k_int8_t, "int8_t", <<8>>, TRUE, <<k_int8>>),
       Row(k_int16_t, "int16_t", <<16>>, TRUE, <<k_int16>>),
       Row(k_int32_t, "int32_t", <<32>>, TRUE, <<k_int32>>),
       Row(k_int64_t, "int64_t", <<64>>, TRUE, <<k_int64>>),
       Row(k_uint8_t, "uint8_t", <<8>>, FALSE, <<k_uint8>>),
       Row(k_uint16_t, "uint16_t", <<16>>, FALSE, <<k_uint16>>),
       Row(k_uint32_t, "uint32_t", <<32>>, FALSE, <<k_uint32>>),
       Row(k_uint64_t, "uint64_t", <<64>>, FALSE, <<k_uint64>>),
       Row(k_size_t, "size_t", <<64>>, FALSE, <<>>),
       Row(k_uint, "uint", <<32>>, FALSE, <<>>),
       Row(k_long, "long", <<64>>, TRUE, <<>>),
       Row(k_unsigned_long, "unsigned long", <<64>>, FALSE, <<k_ulong>>)
    >>

\* types[k] = v
DictPut(d, k, v) == [x \in (DOMAIN d) \cup {k} |-> IF x = k THEN v ELSE d[x]]

RECURSIVE AddAliases(_, _, _)
\* for alias in aliases: types[alias] = numeric_type
AddAliases(types, aliases, numeric_type) ==
    IF aliases = <<>> THEN types
    ELSE AddAliases(DictPut(types, Head(aliases), numeric_type),
                    Tail(aliases), numeric_type)

\* add(name, bits, signed, aliases)
Add(types, row) ==
    LET numeric_type == NumericType(row.name, row.bits, row.signed)
    IN  AddAliases(DictPut(types, row.key, numeric_type), row.aliases, numeric_type)

RECURSIVE AddRows(_, _)
AddRows(types, rows) ==
    IF rows = <<>> THEN types ELSE AddRows(Add(types, Head(rows)), Tail(rows))

_make_types == AddRows(<<>>, RegistryRows)

\* Characters in the order of their code points.
CodePointOrder ==
    <<"\t", " ", "-",
      "0", "1", "2", "3", "4", "5", "6", "7", "8", "9",
      "A", "B", "C", "D", "E", "F", "G", "H", "I", "J", "K", "L", "M",
      "N", "O", "P", "Q", "R", "S", "T", "U", "V", "W", "X", "Y", "Z",
      "_",
      "a", "b", "c", "d", "e", "f", "g", "h", "i", "j", "k", "l", "m",
      "n", "o", "p", "q", "r", "s", "t", "u", "v", "w", "x", "y", "z">>

\* The place of every character in that order.
OrdTable ==
    [ch \in {CodePointOrder[i] : i \in 1 .. Len(CodePointOrder)} |->
        CHOOSE i \in 1 .. Len(CodePointOrder) : CodePointOrder[i] = ch]

Ord(ch) == OrdTable[ch]

UpperLetters == SubSeq(CodePointOrder, 14, 39)
LowerLetters == SubSeq(CodePointOrder, 41, 66)

Whitespace == {"\t", " "}

\* str.lower() of one character
lower_char(ch) ==
    IF \E i \in 1 .. 26 : UpperLetters[i] = ch
    THEN LowerLetters[CHOOSE i \in 1 .. 26 : UpperLetters[i] = ch]
    ELSE ch

\* str.lower()
lower(str) == [i \in 1 .. Len(str) |-> lower_char(str[i])]

RECURSIVE lstrip(_)
lstrip(str) ==
    IF str # <<>> /\ Head(str) \in Whitespace THEN lstrip(Tail(str)) ELSE str

RECURSIVE rstrip(_)
rstrip(str) ==
    IF str # <<>> /\ str[Len(str)] \in Whitespace
    THEN rstrip(SubSeq(str, 1, Len(str) - 1))
    ELSE str

\* str.strip()
strip(str) == rstrip(lstrip(str))

\* The key looked up, with the lower-casing left out
Normalized_NoLower(name) == strip(name)

\* normalized = name.strip().lower()
Normalized(name) == lower(strip(name))

RECURSIVE StrLess(_, _)
\* a < b for two str
StrLess(a, b) ==
    IF b = <<>> THEN FALSE
    ELSE IF a = <<>> THEN TRUE
    ELSE IF Ord(Head(a)) # Ord(Head(b)) THEN Ord(Head(a)) < Ord(Head(b))
    ELSE StrLess(Tail(a), Tail(b))

RECURSIVE sorted(_)
\* sorted(iterable of str), as a list
sorted(S) ==
    IF S = {} THEN <<>>
    ELSE LET least == CHOOSE x \in S : \A y \in S \ {x} : StrLess(x, y)
         IN  <<least>> \o sorted(S \ {least})

\* The list of known types with the aliases left out
Available_NoAliases(types) ==
    sorted({RegistryRows[i].key : i \in 1 .. Len(RegistryRows)})

\* available = ", ".join(sorted(NUMERIC_TYPES)): the names that are joined
Available(types) == sorted(DOMAIN types)

\* KeyError(f"Unknown numeric type '{name}'. Known types: {available}")
KeyError(name, available) ==
    [exception |-> "KeyError", name |-> name, available |-> available]

(***************************************************************************)
(* src/binary_adder.py: records and bit conversions                        *)
(***************************************************************************)
GateState(name, gate_type, inputs, output) ==
    [name |-> name, gate_type |-> gate_type, inputs |-> inputs, output |-> output]

AdderStep(bit_index, carry_in, gate_states, sum_bit, carry_out) ==
    [bit_index |-> bit_index, carry_in |-> carry_in, gate_states |-> gate_states,
     sum_bit |-> sum_bit, carry_out |-> carry_out]

AdditionResult(numeric_type, l, r, result, overflow, stps, result_bits, final_carry) ==
    [numeric_type |-> numeric_type, lhs |-> l, rhs |-> r, result |-> result,
     overflow |-> overflow, steps |-> stps, result_bits |-> result_bits,
     final_carry |-> final_carry]

\* _int_to_bits that encodes a negative value by its magnitude
_int_to_bits_Magnitude(value, bits, signed) ==
    IF bits <= 0 THEN <<0>>
    ELSE [i \in 1 .. bits |-> BitAt(MaskTo(abs(value), bits), i - 1)]

_int_to_bits(value, bits, signed) ==
    IF bits <= 0 THEN <<0>>
    ELSE LET v1 == IF signed /\ value < 0 THEN Shl1(bits) + value ELSE value
             v2 == MaskTo(v1, bits)
         IN  [i \in 1 .. bits |-> BitAt(v2, i - 1)]

RECURSIVE OrBits(_, _, _)
\* the loop of _bits_to_int: value |= 1 << idx for every set bit
OrBits(bits, idx, value) ==
    IF idx >= Len(bits) THEN value
    ELSE OrBits(bits, idx + 1,
                IF bits[idx + 1] # 0 THEN value + Shl1(idx) ELSE value)

_bits_to_int(bits, signed) ==
    LET value == OrBits(bits, 0, 0)
    IN  IF signed /\ bits # <<>> /\ bits[Len(bits)] = 1
        THEN value - Shl1(Len(bits))
        ELSE value

(***************************************************************************)
(* src/binary_adder.py: the pieces of simulate_addition                    *)
(***************************************************************************)
\* The error raised by the operand validation.  Its message is
\* "<operand> operand <value> does not fit into <type name>."; the record
\* holds the exception class and the three parts the message is built from.
OverflowError(operand, value, type_name) ==
    [exception |-> "OverflowError", operand |-> operand, value |-> value,
     type_name |-> type_name]

\* The text of the error, as the pieces the f-string joins:
\* f"{operand} operand {value} does not fit into {type name}."
OperandMessage(e) ==
    <<e.operand, " operand ", ToString(e.value), " does not fit into ",
      e.type_name, ".">>

InRange(t, value) == range(t)[1] <= value /\ value <= range(t)[2]

\* The validation with the check of the right operand left out
OperandError_LeftOnly(l, r, t) ==
    IF t.bits # None /\ ~InRange(t, l)
    THEN <<OverflowError("Left", l, t.name)>>
    ELSE None

\* The validation at the head of simulate_addition: the error it raises, or
\* None when it lets the call through.
OperandError(l, r, t) ==
    IF t.bits # None
    THEN IF ~InRange(t, l) THEN <<OverflowError("Left", l, t.name)>>
         ELSE IF ~InRange(t, r) THEN <<OverflowError("Right", r, t.name)>>
         ELSE None
    ELSE None

\* The bit width chosen from the two operands alone, without their sum
BitWidthOf_OperandsOnly(l, r, t) ==
    IF t.bits = None
    THEN LET dynamic_bits == bit_length_for_values(t, <<l, r>>)
         IN  IF dynamic_bits > 1 THEN dynamic_bits ELSE 1
    ELSE t.bits[1]

BitWidthOf(l, r, t) ==
    IF t.bits = None
    THEN LET dynamic_bits == bit_length_for_values(t, <<l, r, l + r>>)
         IN  IF dynamic_bits > 1 THEN dynamic_bits ELSE 1
    ELSE t.bits[1]

OperandNorm(v, t) == IF t.bits = None THEN v ELSE normalize(t, v)

\* a_bit = lhs_bits[idx] if idx < len(lhs_bits) else 0
BitOrZero(bits, i) == IF i < Len(bits) THEN bits[i + 1] ELSE 0

\* A full-adder cell whose sum bit ignores the carry-in
FullAdder_SumNoCarry(a_bit, b_bit, cin) ==
    LET xor_ab == Xor(a_bit, b_bit)
        and_ab == And(a_bit, b_bit)
        and_xor_carry == And(xor_ab, cin)
    IN  [xor_ab |-> xor_ab,
         sum_bit |-> xor_ab,
         and_ab |-> and_ab,
         and_xor_carry |-> and_xor_carry,
         carry_out |-> Or(and_ab, and_xor_carry)]

\* A full-adder cell whose carry-out ignores the propagated carry
FullAdder_NoPropagate(a_bit, b_bit, cin) ==
    LET xor_ab == Xor(a_bit, b_bit)
        and_ab == And(a_bit, b_bit)
        and_xor_carry == And(xor_ab, cin)
    IN  [xor_ab |-> xor_ab,
         sum_bit |-> Xor(xor_ab, cin),
         and_ab |-> and_ab,
         and_xor_carry |-> and_xor_carry,
         carry_out |-> and_ab]

\* The five signals of one full-adder cell.
FullAdder(a_bit, b_bit, cin) ==
    LET xor_ab == Xor(a_bit, b_bit)
        and_ab == And(a_bit, b_bit)
        and_xor_carry == And(xor_ab, cin)
    IN  [xor_ab |-> xor_ab,
         sum_bit |-> Xor(xor_ab, cin),
         and_ab |-> and_ab,
         and_xor_carry |-> and_xor_carry,
         carry_out |-> Or(and_ab, and_xor_carry)]

\* The gate list whose SUM gate records the operand bits as its inputs
Gates_SumInputsAB(i, a_bit, b_bit, cin, fa) ==
    << GateState(<<"A_XOR_B", i>>, "XOR",
                 << <<"A", a_bit>>, <<"B", b_bit>> >>, fa.xor_ab),
       GateState(<<"SUM", i>>, "XOR",
                 << <<"A", a_bit>>, <<"B", b_bit>> >>, fa.sum_bit),
       GateState(<<"CARRY_GEN", i>>, "AND",
                 << <<"A", a_bit>>, <<"B", b_bit>> >>, fa.and_ab),
       GateState(<<"CARRY_PROP", i>>, "AND",
                 << <<"A_xor_B", fa.xor_ab>>, <<"CarryIn", cin>> >>, fa.and_xor_carry),
       GateState(<<"CARRY_OUT", i>>, "OR",
                 << <<"Gen", fa.and_ab>>, <<"Prop", fa.and_xor_carry>> >>, fa.carry_out) >>

\* The gate list with the two carry AND gates in the other order
Gates_PropBeforeGen(i, a_bit, b_bit, cin, fa) ==
    << GateState(<<"A_XOR_B", i>>, "XOR",
                 << <<"A", a_bit>>, <<"B", b_bit>> >>, fa.xor_ab),
       GateState(<<"SUM", i>>, "XOR",
                 << <<"XOR", fa.xor_ab>>, <<"CarryIn", cin>> >>, fa.sum_bit),
       GateState(<<"CARRY_PROP", i>>, "AND",
                 << <<"A_xor_B", fa.xor_ab>>, <<"CarryIn", cin>> >>, fa.and_xor_carry),
       GateState(<<"CARRY_GEN", i>>, "AND",
                 << <<"A", a_bit>>, <<"B", b_bit>> >>, fa.and_ab),
       GateState(<<"CARRY_OUT", i>>, "OR",
                 << <<"Gen", fa.and_ab>>, <<"Prop", fa.and_xor_carry>> >>, fa.carry_out) >>

\* The five GateState records of one bit, in the order the list is written.
Gates(i, a_bit, b_bit, cin, fa) ==
    << GateState(<<"A_XOR_B", i>>, "XOR",
                 << <<"A", a_bit>>, <<"B", b_bit>> >>, fa.xor_ab),
       GateState(<<"SUM", i>>, "XOR",
                 << <<"XOR", fa.xor_ab>>, <<"CarryIn", cin>> >>, fa.sum_bit),
       GateState(<<"CARRY_GEN", i>>, "AND",
                 << <<"A", a_bit>>, <<"B", b_bit>> >>, fa.and_ab),
       GateState(<<"CARRY_PROP", i>>, "AND",
                 << <<"A_xor_B", fa.xor_ab>>, <<"CarryIn", cin>> >>, fa.and_xor_carry),
       GateState(<<"CARRY_OUT", i>>, "OR",
                 << <<"Gen", fa.and_ab>>, <<"Prop", fa.and_xor_carry>> >>, fa.carry_out) >>

\* The step appended by one iteration of the loop.
MakeStep(i, a_bit, b_bit, cin) ==
    LET fa == FullAdder(a_bit, b_bit, cin)
    IN  AdderStep(i, cin, Gates(i, a_bit, b_bit, cin, fa), fa.sum_bit, fa.carry_out)

\* The final carry appended whatever its value
UnboundedResultBits_Always(bits, fc) == Append(bits, fc)

\* Unbounded type: the final carry, when set, is appended to the sum bits.
UnboundedResultBits(bits, fc) ==
    IF Truthy(fc) THEN Append(bits, fc) ELSE bits

\* Fixed-width type: the result bits are recomputed from the normalized sum.
FixedResultBits(t, raw_sum, width) ==
    LET normalized_sum == normalize(t, raw_sum)
        encoded == MaskTo(normalized_sum, width)
    IN  _int_to_bits(encoded, width, FALSE)

RangeOverflow(t, raw_sum) == ~InRange(t, raw_sum)

\* The carry condition without its gate on the signedness
CarryOverflow_Ungated(t, fc) == Truthy(fc)

CarryOverflow(t, fc) == IF ~t.signed THEN Truthy(fc) ELSE FALSE

\* The signed condition read off the carry out of the top bit alone
SignedOverflow_FinalCarry(t, stps) ==
    IF t.signed /\ stps # <<>>
    THEN Truthy(stps[Len(stps)].carry_out)
    ELSE FALSE

SignedOverflow(t, stps) ==
    IF t.signed /\ stps # <<>>
    THEN Truthy(Xor(stps[Len(stps)].carry_in, stps[Len(stps)].carry_out))
    ELSE FALSE

RECURSIVE Ripple(_, _, _, _, _)
\* The loop of simulate_addition run from bit i to the end without
\* interruption; acc holds the loop's variables carry, steps and sum_bits.
Ripple(a_bits, b_bits, i, width, acc) ==
    IF i >= width THEN acc
    ELSE LET step == MakeStep(i, BitOrZero(a_bits, i), BitOrZero(b_bits, i),
                              acc.carry)
         IN  Ripple(a_bits, b_bits, i + 1, width,
                    [carry |-> step.carry_out,
                     steps |-> Append(acc.steps, step),
                     sum_bits |-> Append(acc.sum_bits, step.sum_bit)])

\* simulate_addition(l, r, t) run on its own from call to return: the
\* AdditionResult it returns or the error it raises.
RunAlone(l, r, t) ==
    IF OperandError(l, r, t) # None THEN Raises(OperandError(l, r, t)[1])
    ELSE LET width == BitWidthOf(l, r, t)
             a_bits == _int_to_bits(OperandNorm(l, t), width, t.signed)
             b_bits == _int_to_bits(OperandNorm(r, t), width, t.signed)
             end == Ripple(a_bits, b_bits, 0, width,
                           [carry |-> 0, steps |-> <<>>, sum_bits |-> <<>>])
             final_carry == end.carry
             raw_sum == l + r
         IN  IF t.bits = None
             THEN Returns(AdditionResult(t, l, r, raw_sum, FALSE, end.steps,
                              UnboundedResultBits(end.sum_bits, final_carry),
                              final_carry))
             ELSE Returns(AdditionResult(t, l, r, normalize(t, raw_sum),
                              \/ RangeOverflow(t, raw_sum)
                              \/ CarryOverflow(t, final_carry)
                              \/ SignedOverflow(t, end.steps),
                              end.steps,
                              FixedResultBits(t, raw_sum, width),
                              final_carry))

(***************************************************************************)
(* src/simulation.py: SimulationTimeline                                   *)
(***************************************************************************)
TimelineEvent(tick, bit_index, gate_state, step) ==
    [tick |-> tick, bit_index |-> bit_index, gate_state |-> gate_state, step |-> step]

\* The tick counter left where it is
NextTick_Stuck(tick) == tick

\* tick += 1
NextTick(tick) == tick + 1

RECURSIVE GateEvents(_, _, _)
\* The inner loop: one event per gate state of `step`, from gate g on.
\* acc is the pair of the loop's variables, [events, tick].
GateEvents(step, g, acc) ==
    IF g > Len(step.gate_states) THEN acc
    ELSE GateEvents(step, g + 1,
             [events |-> Append(acc.events,
                                TimelineEvent(acc.tick, step.bit_index,
                                              step.gate_states[g], <<step>>)),
              tick |-> NextTick(acc.tick)])

RECURSIVE StepEvents(_, _, _)
\* The outer loop over addition.steps, from step s on.
StepEvents(stps, s, acc) ==
    IF s > Len(stps) THEN acc
    ELSE StepEvents(stps, s + 1, GateEvents(stps[s], 1, acc))

\* The synthetic event placed on bit 0 instead of the top bit
FinalCarryEvent_Bit0(addition, tick) ==
    LET stps == addition.steps
    IN  TimelineEvent(tick, 0,
                      GateState(<<"FINAL_CARRY">>, "OUTPUT",
                                << <<"CarryOut", addition.final_carry>> >>,
                                addition.final_carry),
                      IF stps # <<>> THEN <<stps[Len(stps)]>> ELSE None)

\* The synthetic event that shows the final carry.
FinalCarryEvent(addition, tick) ==
    LET stps == addition.steps
        msb_index == IF stps # <<>> THEN stps[Len(stps)].bit_index ELSE 0
    IN  TimelineEvent(tick, msb_index,
                      GateState(<<"FINAL_CARRY">>, "OUTPUT",
                                << <<"CarryOut", addition.final_carry>> >>,
                                addition.final_carry),
                      IF stps # <<>> THEN <<stps[Len(stps)]>> ELSE None)

\* The synthetic event appended whatever the final carry
HasFinalEvent_Always(addition) == TRUE

HasFinalEvent(addition) == Truthy(addition.final_carry)

SimulationTimeline(addition) ==
    LET acc == StepEvents(addition.steps, 1, [events |-> <<>>, tick |-> 0])
    IN  IF HasFinalEvent(addition)
        THEN Append(acc.events, FinalCarryEvent(addition, acc.tick))
        ELSE acc.events

(***************************************************************************)
(* State.  Every call of simulate_addition has its own local variables;    *)
(* they are indexed by the caller.                                         *)
(***************************************************************************)
Callers == {1, 2}

VARIABLES
    pc,              \* position of each call: "idle", "loop", "returned",
                     \* "raised" or "timeline"
    lhs, rhs, numeric_type,                  \* arguments
    bit_width, lhs_bits, rhs_bits,           \* locals set before the loop
    idx, carry, steps, sum_bits,             \* loop variables
    range_overflow, carry_overflow, signed_overflow,
    ret,             \* Optional[AdditionResult]: the value returned
    err,             \* Optional[OverflowError]: the exception raised
    timeline,        \* Optional[list of TimelineEvent] built from ret
    ncalls,          \* number of calls each caller has made
    NUMERIC_TYPES,   \* the module-level registry dict
    lookup_name,     \* Optional[str]: argument of the last get_numeric_type
    lookup_ret,      \* Optional[NumericType]: what it returned
    lookup_err,      \* Optional[KeyError]: what it raised
    op_call,         \* Optional: the last NumericType method call
    op_ret,          \* Optional[int]: what it returned
    op_err,          \* Optional[OverflowError]: what it raised
    self,            \* the AdderVisualizer: timeline, addition, event_index,
                     \* after_id
    root,            \* the Tk event loop: the timer callbacks that are
                     \* scheduled, and the serial number of the next one
    canvas,          \* what has been drawn since the canvas was cleared:
                     \* the events highlighted, and whether finalized
    nstarts,         \* number of start_animation calls so far
    start_call,      \* Optional: the texts the last start_animation read
    messagebox       \* Optional: the error dialog the last start_animation
                     \* showed

args == <<lhs, rhs, numeric_type>>
setup == <<bit_width, lhs_bits, rhs_bits>>
loopvars == <<idx, carry, steps, sum_bits>>
flags == <<range_overflow, carry_overflow, signed_overflow>>
registry == <<NUMERIC_TYPES, lookup_name, lookup_ret, lookup_err>>
typeops == <<op_call, op_ret, op_err>>
playback == <<self, root, canvas, nstarts, start_call, messagebox>>
vars == <<pc, args, setup, loopvars, flags, ret, err, timeline, ncalls,
          registry, typeops, playback>>

Init ==
    /\ pc = [c \in Callers |-> "idle"]
    /\ lhs = [c \in Callers |-> 0]
    /\ rhs = [c \in Callers |-> 0]
    /\ numeric_type = [c \in Callers |-> IntType]
    /\ bit_width = [c \in Callers |-> 0]
    /\ lhs_bits = [c \in Callers |-> <<>>]
    /\ rhs_bits = [c \in Callers |-> <<>>]
    /\ idx = [c \in Callers |-> 0]
    /\ carry = [c \in Callers |-> 0]
    /\ steps = [c \in Callers |-> <<>>]
    /\ sum_bits = [c \in Callers |-> <<>>]
    /\ range_overflow = [c \in Callers |-> FALSE]
    /\ carry_overflow = [c \in Callers |-> FALSE]
    /\ signed_overflow = [c \in Callers |-> FALSE]
    /\ ret = [c \in Callers |-> None]
    /\ err = [c \in Callers |-> None]
    /\ timeline = [c \in Callers |-> None]
    /\ ncalls = [c \in Callers |-> 0]
    /\ NUMERIC_TYPES = _make_types
    /\ lookup_name = None
    /\ lookup_ret = None
    /\ lookup_err = None
    /\ op_call = None
    /\ op_ret = None
    /\ op_err = None
    /\ self = [timeline |-> None, addition |-> None, event_index |-> 0,
               after_id |-> None]
    /\ root = [timers |-> {}, serial |-> 0]
    /\ canvas = [highlighted |-> <<>>, finalized |-> FALSE]
    /\ nstarts = 0
    /\ start_call = None
    /\ messagebox = None

\* The list of steps a call starts with, taken over from the caller's
\* previous call (a list object shared between calls)
NewSteps_Reused(c) == steps[c]

\* steps: List[AdderStep] = []
NewSteps(c) == <<>>

\* simulate_addition(l, r, t) is called: validation, bit width, operand bits.
SimulateEnter(c, l, r, t) ==
    /\ pc[c] = "idle"
    /\ lhs' = [lhs EXCEPT ![c] = l]
    /\ rhs' = [rhs EXCEPT ![c] = r]
    /\ numeric_type' = [numeric_type EXCEPT ![c] = t]
    /\ IF OperandError(l, r, t) # None
       THEN /\ err' = [err EXCEPT ![c] = OperandError(l, r, t)]
            /\ pc' = [pc EXCEPT ![c] = "raised"]
            /\ UNCHANGED <<setup, loopvars>>
       ELSE /\ bit_width' = [bit_width EXCEPT ![c] = BitWidthOf(l, r, t)]
            /\ lhs_bits' = [lhs_bits EXCEPT ![c] =
                   _int_to_bits(OperandNorm(l, t), BitWidthOf(l, r, t), t.signed)]
            /\ rhs_bits' = [rhs_bits EXCEPT ![c] =
                   _int_to_bits(OperandNorm(r, t), BitWidthOf(l, r, t), t.signed)]
            /\ carry' = [carry EXCEPT ![c] = 0]
            /\ steps' = [steps EXCEPT ![c] = NewSteps(c)]
            /\ sum_bits' = [sum_bits EXCEPT ![c] = <<>>]
            /\ idx' = [idx EXCEPT ![c] = 0]
            /\ pc' = [pc EXCEPT ![c] = "loop"]
            /\ UNCHANGED err
    /\ ncalls' = [ncalls EXCEPT ![c] = @ + 1]
    /\ UNCHANGED <<flags, ret, timeline, registry, typeops, playback>>

\* The carry read from one variable shared by all the calls
CarryIn_Shared(c) == carry[1]

\* The carry a loop iteration reads: the local variable of its own call.
CarryIn(c) == carry[c]

\* One iteration of `for idx in range(bit_width)`.
RippleStep(c) ==
    /\ pc[c] = "loop"
    /\ idx[c] < bit_width[c]
    /\ LET step == MakeStep(idx[c], BitOrZero(lhs_bits[c], idx[c]),
                            BitOrZero(rhs_bits[c], idx[c]), CarryIn(c))
       IN  /\ steps' = [steps EXCEPT ![c] = Append(@, step)]
           /\ sum_bits' = [sum_bits EXCEPT ![c] = Append(@, step.sum_bit)]
           /\ carry' = [carry EXCEPT ![c] = step.carry_out]
    /\ idx' = [idx EXCEPT ![c] = @ + 1]
    /\ UNCHANGED <<pc, args, setup, flags, ret, err, timeline, ncalls,
                    registry, typeops, playback>>

\* The code after the loop: final carry, result, overflow, the return.
SimulateReturn(c) ==
    /\ pc[c] = "loop"
    /\ idx[c] >= bit_width[c]
    /\ LET t == numeric_type[c]
           final_carry == carry[c]
           raw_sum == lhs[c] + rhs[c]
       IN  IF t.bits = None
           THEN /\ sum_bits' = [sum_bits EXCEPT ![c] =
                                    UnboundedResultBits(@, final_carry)]
                /\ ret' = [ret EXCEPT ![c] =
                       <<AdditionResult(t, lhs[c], rhs[c], raw_sum, FALSE, steps[c],
                                        UnboundedResultBits(sum_bits[c], final_carry),
                                        final_carry)>>]
                /\ UNCHANGED flags
           ELSE /\ sum_bits' = [sum_bits EXCEPT ![c] =
                                    FixedResultBits(t, raw_sum, bit_width[c])]
                /\ range_overflow' = [range_overflow EXCEPT ![c] =
                                          RangeOverflow(t, raw_sum)]
                /\ carry_overflow' = [carry_overflow EXCEPT ![c] =
                                          CarryOverflow(t, final_carry)]
                /\ signed_overflow' = [signed_overflow EXCEPT ![c] =
                                           SignedOverflow(t, steps[c])]
                /\ ret' = [ret EXCEPT ![c] =
                       <<AdditionResult(t, lhs[c], rhs[c], normalize(t, raw_sum),
                                        \/ RangeOverflow(t, raw_sum)
                                        \/ CarryOverflow(t, final_carry)
                                        \/ SignedOverflow(t, steps[c]),
                                        steps[c],
                                        FixedResultBits(t, raw_sum, bit_width[c]),
                                        final_carry)>>]
    /\ pc' = [pc EXCEPT ![c] = "returned"]
    /\ UNCHANGED <<args, setup, idx, carry, steps, err, timeline, ncalls,
                    registry, typeops, playback>>

\* SimulationTimeline(addition) is constructed from the returned result.
BuildTimeline(c) ==
    /\ pc[c] = "returned"
    /\ timeline' = [timeline EXCEPT ![c] = <<SimulationTimeline(ret[c][1])>>]
    /\ pc' = [pc EXCEPT ![c] = "timeline"]
    /\ UNCHANGED <<args, setup, loopvars, flags, ret, err, ncalls,
                    registry, typeops, playback>>

\* One caller; the operands and the type are any of the enumerated ones.
Next ==
    \/ \E l \in Operands, r \in Operands, t \in Types : SimulateEnter(1, l, r, t)
    \/ RippleStep(1)
    \/ SimulateReturn(1)
    \/ BuildTimeline(1)

Spec == Init /\ [][Next]_vars

(***************************************************************************)
(* Several calls: two callers, whose calls interleave step by step, and    *)
(* a caller may call again after its call has ended.                       *)
(***************************************************************************)
\* Calls made in all, by both callers together.
MaxCalls == 3

Ended(c) == pc[c] \in {"returned", "raised"}

\* The caller drops the outcome of its call and is ready to call again.
\* The frame of the call that ended is garbage: the next call sets its
\* locals anew.
CallAgain(c) ==
    /\ Ended(c)
    /\ ncalls[1] + ncalls[2] < MaxCalls
    /\ pc' = [pc EXCEPT ![c] = "idle"]
    /\ ret' = [ret EXCEPT ![c] = None]
    /\ err' = [err EXCEPT ![c] = None]
    /\ UNCHANGED <<args, setup, loopvars, flags, timeline, ncalls,
                    registry, typeops, playback>>

CallOperands == {-1, 3}

CallTypes == {NumericType("uint2_t", <<2>>, FALSE), IntType}

CallsNext ==
    \/ \E c \in Callers, l \in CallOperands, r \in CallOperands, t \in CallTypes :
           SimulateEnter(c, l, r, t)
    \/ \E c \in Callers : RippleStep(c)
    \/ \E c \in Callers : SimulateReturn(c)
    \/ \E c \in Callers : CallAgain(c)

CallsSpec == Init /\ [][CallsNext]_vars

(***************************************************************************)
(* Registry lookups.                                                       *)
(***************************************************************************)
simvars == <<pc, args, setup, loopvars, flags, ret, err, timeline, ncalls>>

\* get_numeric_type(name): the type registered under the normalized name,
\* or a KeyError that lists the known names.
get_numeric_type(name) ==
    /\ lookup_name' = <<name>>
    /\ IF Normalized(name) \in DOMAIN NUMERIC_TYPES
       THEN /\ lookup_ret' = <<NUMERIC_TYPES[Normalized(name)]>>
            /\ lookup_err' = None
       ELSE /\ lookup_ret' = None
            /\ lookup_err' = <<KeyError(name, Available(NUMERIC_TYPES))>>
    /\ UNCHANGED <<NUMERIC_TYPES, simvars, typeops, playback>>

\* The ways a name is written: every letter lower case, every letter upper
\* case, the letters at odd or at even positions upper case, the first
\* letter upper case.
CaseMasks == {"lower", "upper", "odd", "even", "first"}

upper_char(ch) ==
    IF \E i \in 1 .. 26 : LowerLetters[i] = ch
    THEN UpperLetters[CHOOSE i \in 1 .. 26 : LowerLetters[i] = ch]
    ELSE ch

ApplyCase(key, mask) ==
    [i \in 1 .. Len(key) |->
        IF \/ mask = "upper"
           \/ mask = "odd" /\ i % 2 = 1
           \/ mask = "even" /\ i % 2 = 0
           \/ mask = "first" /\ i = 1
        THEN upper_char(key[i]) ELSE key[i]]

RegisteredKeys ==
    UNION { {RegistryRows[i].key}
            \cup {RegistryRows[i].aliases[j] : j \in 1 .. Len(RegistryRows[i].aliases)}
          : i \in 1 .. Len(RegistryRows) }

Spellings == {ApplyCase(k, m) : k \in RegisteredKeys, m \in CaseMasks}

\* Names that are not registered: "int9_t", "", "integer", "int 8", "u_int".
UnknownNames ==
    { <<"i", "n", "t", "9", "_", "t">>,
      <<>>,
      <<"i", "n", "t", "e", "g", "e", "r">>,
      <<"i", "n", "t", " ", "8">>,
      <<"U", "_", "I", "N", "T">> }

\* The names looked up: the spellings, bare and between blanks, and the
\* unregistered names.
Queries ==
    Spellings \cup {<<" ">> \o q \o <<"\t">> : q \in Spellings} \cup UnknownNames

RegistryNext == \E name \in Queries : get_numeric_type(name)

RegistrySpec == Init /\ [][RegistryNext]_vars

(***************************************************************************)
(* Calls of the NumericType methods normalize and encode.                  *)
(***************************************************************************)
\* The values the methods are called with: the operands and values past
\* the limits of the 8-bit types on either side.
MethodValues == Operands \cup {-600, -512, -257, -256, -255, 254, 257, 511, 512, 600}

MethodCall(method, t, value) == [method |-> method, t |-> t, value |-> value]

\* t.normalize(value)
Normalize(t, value) ==
    /\ op_call = None
    /\ op_call' = <<MethodCall("normalize", t, value)>>
    /\ op_ret' = <<normalize(t, value)>>
    /\ op_err' = None
    /\ UNCHANGED <<simvars, registry, playback>>

\* t.encode(value)
Encode(t, value) ==
    /\ op_call = None
    /\ op_call' = <<MethodCall("encode", t, value)>>
    /\ op_ret' = encode(t, value).ret
    /\ op_err' = encode(t, value).err
    /\ UNCHANGED <<simvars, registry, playback>>

MethodNext ==
    \/ \E t \in Types, value \in MethodValues : Normalize(t, value)
    \/ \E t \in Types, value \in MethodValues : Encode(t, value)

MethodSpec == Init /\ [][MethodNext]_vars

(***************************************************************************)
(* src/main.py: AdderVisualizer.  The window has a Start button            *)
(* (start_animation), a Reset button (reset) and a timer callback          *)
(* (_animate_next_event) that Tk calls once for every root.after.  The     *)
(* three run on Tk's single thread, one at a time.                         *)
(*                                                                         *)
(* The pure operators below take and return a record w of the three        *)
(* objects a handler works on: w.self, w.root and w.canvas.                *)
(***************************************************************************)
\* Start is pressed at most MaxStarts times.
MaxStarts == 2

\* The characters of the digits 0..15 in a lower-cased literal.
DigitChars ==
    <<"0", "1", "2", "3", "4", "5", "6", "7", "8", "9",
      "a", "b", "c", "d", "e", "f">>

IsDigit(ch, base) == \E i \in 1 .. base : DigitChars[i] = ch

DigitValue(ch) == (CHOOSE i \in 1 .. 16 : DigitChars[i] = ch) - 1

RECURSIVE DigitsValue(_, _, _, _)
\* The value of a run of digits in which single underscores may stand
\* between two digits; -1 when the run is not of that form.
DigitsValue(chars, base, acc, after_digit) ==
    IF chars = <<>> THEN (IF after_digit THEN acc ELSE -1)
    ELSE IF Head(chars) = "_"
         THEN IF after_digit THEN DigitsValue(Tail(chars), base, acc, FALSE)
              ELSE -1
    ELSE IF IsDigit(Head(chars), base)
         THEN DigitsValue(Tail(chars), base,
                          acc * base + DigitValue(Head(chars)), TRUE)
    ELSE -1

ValueError == [exception |-> "ValueError"]

\* The literal starts with a base prefix: 0x, 0o or 0b.
HasPrefix(body) ==
    Len(body) >= 2 /\ body[1] = "0" /\ body[2] \in {"x", "o", "b"}

BaseOf(ch) == IF ch = "x" THEN 16 ELSE IF ch = "o" THEN 8 ELSE 2

\* The digits after a base prefix; one underscore may stand before them.
AfterPrefix(body) ==
    IF Len(body) >= 3 /\ body[3] = "_" THEN SubSeq(body, 4, Len(body))
    ELSE SubSeq(body, 3, Len(body))

\* A decimal literal of the given value: it has no leading zero unless it
\* is zero.
NoLeadingZero(body, magnitude) ==
    IF magnitude > 0 /\ Head(body) = "0" THEN -1 ELSE magnitude

\* The value of a lower-cased literal without its sign; -1 when it is not
\* a literal.
Magnitude(body) ==
    IF HasPrefix(body)
    THEN DigitsValue(AfterPrefix(body), BaseOf(body[2]), 0, FALSE)
    ELSE NoLeadingZero(body, DigitsValue(body, 10, 0, FALSE))

Signed(negative, magnitude) ==
    IF magnitude < 0 THEN Raises(ValueError)
    ELSE Returns(IF negative THEN -magnitude ELSE magnitude)

\* The literal after its blanks have been dropped: an optional sign, then
\* the digits in either case.
Literal(s) ==
    IF s # <<>> /\ Head(s) \in {"+", "-"}
    THEN Signed(Head(s) = "-", Magnitude(lower(Tail(s))))
    ELSE Signed(FALSE, Magnitude(lower(s)))

\* int(text, 0): blanks around the literal are dropped; an optional sign;
\* a prefix 0x, 0o or 0b (either case) selects the base and may be followed
\* by one underscore; single underscores may stand between digits; a
\* decimal literal has no leading zero unless it is zero.  Anything else
\* raises ValueError.
int0(text) == Literal(strip(text))

\* messagebox.showerror(title, message): the dialog is named by the error
\* that caused it, the message is the fixed text of the input error or
\* str(exc) of the KeyError or OverflowError.
Dialog(error, message) == [error |-> error, message |-> message]

\* The third try block of start_animation: the outcome of
\* simulate_addition, an OverflowError turned into its dialog.
Computed(run) ==
    IF run.err # None THEN Raises(Dialog("OverflowError", run.err)) ELSE run

\* The second try block: get_numeric_type, then the third block.
Looked(l, r, type_name, key) ==
    IF key \notin DOMAIN NUMERIC_TYPES
    THEN Raises(Dialog("KeyError",
                       <<KeyError(type_name, Available(NUMERIC_TYPES))>>))
    ELSE Computed(RunAlone(l, r, NUMERIC_TYPES[key]))

\* The first try block: the two operands parsed, then the second block.
Parsed(l, r, type_name) ==
    IF l.err # None \/ r.err # None THEN Raises(Dialog("ValueError", None))
    ELSE Looked(l.ret[1], r.ret[1], type_name, Normalized(type_name))

\* The three try blocks of start_animation: the AdditionResult when all
\* three succeed, else the dialog of the first one that fails.
Validate(left, right, type_name) ==
    Parsed(int0(left), int0(right), type_name)

\* self.root.after(delay, callback): Tk schedules the callback under a new
\* identifier "after#<serial>" and returns the identifier.
after(r) ==
    [id |-> <<"after", r.serial>>,
     root |-> [timers |-> r.timers \cup {<<"after", r.serial>>},
               serial |-> r.serial + 1]]

\* self.root.after_cancel(id): no effect if the callback has already run.
after_cancel(r, id) == [r EXCEPT !.timers = @ \ {id}]

\* AdderVisualizer.reset
reset(w) ==
    [self |-> [timeline |-> None, addition |-> None, event_index |-> 0,
               after_id |-> None],
     root |-> IF w.self.after_id # None
              THEN after_cancel(w.root, w.self.after_id[1])
              ELSE w.root,
     canvas |-> [highlighted |-> <<>>, finalized |-> FALSE]]

\* AdderVisualizer._schedule_next
_schedule_next(w) ==
    LET scheduled == after(w.root)
    IN  [w EXCEPT !.self.after_id = <<scheduled.id>>, !.root = scheduled.root]

\* AdderVisualizer._finalize_visuals
_finalize_visuals(w) ==
    IF w.self.addition = None THEN w ELSE [w EXCEPT !.canvas.finalized = TRUE]

\* AdderVisualizer._highlight_event
_highlight_event(w, event) ==
    [w EXCEPT !.canvas.highlighted = Append(@, event)]

\* A playback position that advances by two
NextEventIndex_Skip(event_index) == event_index + 2

\* self.event_index += 1
NextEventIndex(event_index) == event_index + 1

\* AdderVisualizer._animate_next_event, once Tk has taken the callback off
\* its schedule
_animate_next_event(w) ==
    IF w.self.timeline = None \/ Len(w.self.timeline[1]) = 0 THEN w
    ELSE IF w.self.event_index >= Len(w.self.timeline[1])
    THEN [_finalize_visuals(w) EXCEPT !.self.after_id = None]
    ELSE LET event == w.self.timeline[1][w.self.event_index + 1]
             shown == _highlight_event(w, event)
         IN  _schedule_next(
                 [shown EXCEPT !.self.event_index = NextEventIndex(@)])

\* A start_animation that resets the window before it returns from a
\* failed validation
StartFailed_Reset(w) == reset(w)

\* The `return` after messagebox.showerror: nothing else is done.
StartFailed(w) == w

\* start_animation from self.reset() on, for the addition computed
StartPlayback(w, addition) ==
    LET cleared == reset(w)
        loaded == [cleared EXCEPT
                      !.self.addition = <<addition>>,
                      !.self.timeline = <<SimulationTimeline(addition)>>]
    IN  IF Len(loaded.self.timeline[1]) = 0 THEN _finalize_visuals(loaded)
        ELSE _schedule_next([loaded EXCEPT !.self.event_index = 0])

Window == [self |-> self, root |-> root, canvas |-> canvas]

\* What the two entries and the type box hold when Start is pressed:
\* self.left_var.get(), self.right_var.get(), self.type_var.get().
Text(left, right, type_name) ==
    [left |-> left, right |-> right, type_name |-> type_name]

\* What start_animation makes of the window, with the dialog it shows.
Started(w, checked) ==
    IF checked.err # None
    THEN [window |-> StartFailed(w), messagebox |-> checked.err]
    ELSE [window |-> StartPlayback(w, checked.ret[1]), messagebox |-> None]

\* The Start button: start_animation with the given texts in the entries.
StartAnimation(left, right, type_name) ==
    /\ nstarts < MaxStarts
    /\ nstarts' = nstarts + 1
    /\ start_call' = <<Text(left, right, type_name)>>
    /\ \E done \in {Started(Window, Validate(left, right, type_name))} :
           /\ messagebox' = done.messagebox
           /\ self' = done.window.self
           /\ root' = done.window.root
           /\ canvas' = done.window.canvas
    /\ UNCHANGED <<simvars, registry, typeops>>

\* The Reset button.
Reset ==
    /\ self' = reset(Window).self
    /\ root' = reset(Window).root
    /\ canvas' = reset(Window).canvas
    /\ UNCHANGED <<nstarts, start_call, messagebox, simvars, registry, typeops>>

\* Tk runs the scheduled callback id: it is taken off the schedule and
\* _animate_next_event is called.
AnimateNextEvent(id) ==
    /\ id \in root.timers
    /\ LET fired == [Window EXCEPT !.root.timers = @ \ {id}]
           w == _animate_next_event(fired)
       IN  /\ self' = w.self
           /\ root' = w.root
           /\ canvas' = w.canvas
    /\ UNCHANGED <<nstarts, start_call, messagebox, simvars, registry, typeops>>

TimerFires == \E id \in root.timers : AnimateNextEvent(id)

\* The texts Start is pressed with: texts that play back (an unbounded sum
\* without and with a final carry, a sum whose type is named by an alias) and
\* texts that fail each of the three validations.
StartTexts ==
    { \* "-1" + "0", "int"
      Text(<<"-", "1">>, <<"0">>, k_int),
      \* " -0b11 " + "-1", "int"
      Text(<<" ", "-", "0", "b", "1", "1", " ">>, <<"-", "1">>, k_int),
      \* "0x1" + "0_0", " Python-Int "
      Text(<<"0", "x", "1">>, <<"0", "_", "0">>,
           <<" ", "P", "y", "t", "h", "o", "n", "-", "I", "n", "t", " ">>),
      \* "1x" + "0", "int": the left text is no number
      Text(<<"1", "x">>, <<"0">>, k_int),
      \* "-1" + "", "int": the right text is no number
      Text(<<"-", "1">>, <<>>, k_int),
      \* "-1" + "0", "int9_t": no such type
      Text(<<"-", "1">>, <<"0">>, <<"i", "n", "t", "9", "_", "t">>),
      \* "-1" + "0", "uint8_t": the left operand is out of range
      Text(<<"-", "1">>, <<"0">>, k_uint8_t),
      \* "0x1" + "300", "uint8": the right operand is out of range
      Text(<<"0", "x", "1">>, <<"3", "0", "0">>, k_uint8) }

PlayNext ==
    \/ \E text \in StartTexts :
           StartAnimation(text.left, text.right, text.type_name)
    \/ Reset
    \/ TimerFires

PlaySpec == Init /\ [][PlayNext]_vars

\* Tk's main loop runs every callback whose delay has passed.
PlayFairSpec == PlaySpec /\ WF_vars(TimerFires)

(***************************************************************************)
(* Properties                                                              *)
(***************************************************************************)
Returned(c) == ret[c] # None

IsFixed(t) == t.bits # None

\* The value of T's range that is congruent to v modulo 2^n.
WrapInto(t, v) ==
    CHOOSE x \in min_value(t) .. max_value(t) : (x - v) % (2 ^ t.bits[1]) = 0

\* C1: for a fixed-width type T and in-range operands, the result is
\* T.normalize(lhs + rhs), i.e. the value of T's range congruent to the sum
\* modulo 2^bits, and result_bits, read little-endian under T's signedness,
\* decodes to that result.
C1_ResultIsNormalizedSum ==
    \A c \in Callers :
        (Returned(c) /\ IsFixed(numeric_type[c])) =>
            LET r == ret[c][1]
                t == numeric_type[c]
            IN  /\ r.result = normalize(t, lhs[c] + rhs[c])
                /\ r.result = WrapInto(t, lhs[c] + rhs[c])
                /\ _bits_to_int(r.result_bits, t.signed) = r.result

\* A signed 8-bit addition that wraps to a negative result has returned.
C1_Witness ==
    /\ Returned(1)
    /\ numeric_type[1] = Int8Type
    /\ lhs[1] = 127 /\ rhs[1] = 1
    /\ ret[1][1].result = -128

\* The unsigned bit pattern of an in-range operand of a fixed-width type.
Pattern(t, v) == v % (2 ^ t.bits[1])

\* Carry out of the most significant position, from the operands' patterns.
CarryOutOfMsb(t, a, b) ==
    IF Pattern(t, a) + Pattern(t, b) >= 2 ^ t.bits[1] THEN 1 ELSE 0

\* Carry into the most significant position: the carry out of the low
\* bits - 1 positions.
CarryIntoMsb(t, a, b) ==
    LET low == 2 ^ (t.bits[1] - 1)
    IN  IF (Pattern(t, a) % low) + (Pattern(t, b) % low) >= low THEN 1 ELSE 0

\* C2: for a fixed-width type, overflow is the disjunction of the range,
\* carry and signed conditions; the carry condition (final carry 1) is
\* only ever true for unsigned types and the signed condition (carry into
\* the top bit differs from the carry out of it) only for signed types.
C2_OverflowIsDisjunction ==
    \A c \in Callers :
        (Returned(c) /\ IsFixed(numeric_type[c])) =>
            LET r == ret[c][1]
                t == numeric_type[c]
                rangeCond == \/ lhs[c] + rhs[c] < min_value(t)
                             \/ lhs[c] + rhs[c] > max_value(t)
                carryCond == ~t.signed /\ r.final_carry = 1
                signedCond == /\ t.signed
                              /\ CarryIntoMsb(t, lhs[c], rhs[c])
                                     # CarryOutOfMsb(t, lhs[c], rhs[c])
            IN  /\ r.overflow <=> (rangeCond \/ carryCond \/ signedCond)
                /\ range_overflow[c] <=> rangeCond
                /\ carry_overflow[c] <=> carryCond
                /\ signed_overflow[c] <=> signedCond
                /\ r.final_carry = CarryOutOfMsb(t, lhs[c], rhs[c])
                /\ carry_overflow[c] => ~t.signed
                /\ signed_overflow[c] => t.signed

\* A signed addition with final carry 1 and no overflow has returned: the
\* carry condition is gated off by the signedness.
C2_Witness ==
    /\ Returned(1)
    /\ numeric_type[1] = Int8Type
    /\ lhs[1] = -1 /\ rhs[1] = -1
    /\ ret[1][1].final_carry = 1
    /\ ~ret[1][1].overflow

\* C3: simulate_addition raises the operand-range error, and returns
\* nothing, exactly when the type is fixed-width and an operand is outside
\* [min, max]; with the unbounded type it never raises.
C3_RaisesIffOutOfRange ==
    \A c \in Callers :
        pc[c] # "idle" =>
            LET t == numeric_type[c]
                outside(v) == v < min_value(t) \/ v > max_value(t)
            IN  /\ (err[c] # None) <=>
                       (IsFixed(t) /\ (outside(lhs[c]) \/ outside(rhs[c])))
                /\ (err[c] # None) <=> (pc[c] = "raised")
                /\ (err[c] # None) => (ret[c] = None)
                /\ ~IsFixed(t) => err[c] = None

\* The call was refused because of its right operand alone.
C3_Witness ==
    /\ pc[1] = "raised"
    /\ numeric_type[1] = UInt8Type
    /\ lhs[1] = 255 /\ rhs[1] = 256
    /\ err[1] # None
    /\ ret[1] = None

\* C4: every step is a full adder on its operand bits and its carry-in
\* (sum = A xor B xor cin, carry-out = AB or (A xor B)cin), the carry
\* ripples from 0 through the steps, and final_carry is the last carry-out.
C4_FullAdderAndCarryChain ==
    \A c \in Callers :
        /\ \A i \in 1 .. Len(steps[c]) :
               LET s == steps[c][i]
                   A == lhs_bits[c][i]
                   B == rhs_bits[c][i]
               IN  /\ s.sum_bit = (A + B + s.carry_in) % 2
                   /\ s.carry_out = 1 <=>
                          ((A = 1 /\ B = 1) \/ (A # B /\ s.carry_in = 1))
                   /\ s.carry_out \in Bit /\ s.sum_bit \in Bit
                   /\ s.carry_in = IF i = 1 THEN 0 ELSE steps[c][i - 1].carry_out
        /\ Returned(c) =>
               /\ ret[c][1].steps = steps[c]
               /\ steps[c] # <<>>
               /\ ret[c][1].final_carry = steps[c][Len(steps[c])].carry_out

\* A returned addition in which a carry was propagated through a step.
C4_Witness ==
    /\ Returned(1)
    /\ \E i \in 1 .. Len(steps[1]) :
           /\ steps[1][i].carry_in = 1
           /\ lhs_bits[1][i] # rhs_bits[1][i]
           /\ steps[1][i].carry_out = 1

\* bit_length(max(|l|, |r|, |l + r|)) + 1, from the definition of the bit
\* length: the least n with m < 2^n.
DynamicWidth(l, r) ==
    LET m == CHOOSE x \in {abs(l), abs(r), abs(l + r)} :
                 \A y \in {abs(l), abs(r), abs(l + r)} : y <= x
        n == CHOOSE k \in 0 .. 30 :
                 m < 2 ^ k /\ \A j \in 0 .. (k - 1) : m >= 2 ^ j
    IN  n + 1

\* C5: a successful call returns exactly bit_width steps with bit_index
\* 0, 1, ..., bit_width - 1, bit_width being the declared width of a
\* fixed-width type and bit_length(max(|lhs|, |rhs|, |lhs + rhs|)) + 1 (at
\* least 1) for the unbounded type.
C5_StepsMatchBitWidth ==
    \A c \in Callers :
        Returned(c) =>
            LET r == ret[c][1]
                t == numeric_type[c]
                width == IF IsFixed(t) THEN t.bits[1]
                         ELSE DynamicWidth(lhs[c], rhs[c])
            IN  /\ width >= 1
                /\ Len(r.steps) = width
                /\ bit_width[c] = width
                /\ \A i \in 1 .. Len(r.steps) : r.steps[i].bit_index = i - 1

\* An unbounded addition whose width is set by the sum, not by an operand.
C5_Witness ==
    /\ Returned(1)
    /\ numeric_type[1] = IntType
    /\ lhs[1] = 300 /\ rhs[1] = 300
    /\ Len(ret[1][1].steps) = 11

\* C6: with the unbounded type the result is lhs + rhs, overflow is false
\* and result_bits is the steps' sum bits followed by one extra top bit 1
\* exactly when final_carry is 1.
C6_UnboundedResult ==
    \A c \in Callers :
        (Returned(c) /\ ~IsFixed(numeric_type[c])) =>
            LET r == ret[c][1]
                sums == [i \in 1 .. Len(r.steps) |-> r.steps[i].sum_bit]
            IN  /\ r.result = lhs[c] + rhs[c]
                /\ r.overflow = FALSE
                /\ r.result_bits =
                       IF r.final_carry = 1 THEN sums \o <<1>> ELSE sums
                /\ Len(r.result_bits) \in {bit_width[c], bit_width[c] + 1}
                /\ Len(r.result_bits) = bit_width[c] + 1 <=> r.final_carry = 1

\* An unbounded addition of two negative numbers returned with a final
\* carry and the extra top bit.
C6_Witness ==
    /\ Returned(1)
    /\ numeric_type[1] = IntType
    /\ lhs[1] = -1 /\ rhs[1] = -1
    /\ ret[1][1].final_carry = 1
    /\ ret[1][1].result = -2
    /\ Len(ret[1][1].result_bits) = Len(ret[1][1].steps) + 1

Built(c) == timeline[c] # None

\* C7: the timeline of a result r has 5 * len(r.steps) events, plus one
\* when r.final_carry is 1.
C7_TimelineLength ==
    \A c \in Callers :
        Built(c) =>
            LET r == ret[c][1]
            IN  Len(timeline[c][1]) =
                    5 * Len(r.steps) + (IF r.final_carry = 1 THEN 1 ELSE 0)

\* The timeline of uint8_t 255 + 1: 8 steps and the final-carry event.
C7_Witness ==
    /\ Built(1)
    /\ numeric_type[1] = UInt8Type
    /\ lhs[1] = 255 /\ rhs[1] = 1
    /\ ret[1][1].final_carry = 1
    /\ Len(timeline[1][1]) = 41

\* C8: the event at index i of a timeline has tick i, the synthetic final
\* event included.
C8_TickIsIndex ==
    \A c \in Callers :
        Built(c) =>
            \A i \in 1 .. Len(timeline[c][1]) : timeline[c][1][i].tick = i - 1

\* A timeline that ends with the synthetic event, whose tick continues the
\* sequence.
C8_Witness ==
    /\ Built(1)
    /\ ret[1][1].final_carry = 1
    /\ Len(ret[1][1].steps) = 3
    /\ timeline[1][1][16].gate_state.gate_type = "OUTPUT"
    /\ timeline[1][1][16].tick = 15

\* C9: the timeline holds an OUTPUT event exactly when final_carry is 1;
\* it is then the only one and the last event, named FINAL_CARRY, on the
\* last step's bit index, with the final carry as its single input and as
\* its output, and the last step as its back-reference.
C9_FinalCarryEvent ==
    \A c \in Callers :
        Built(c) =>
            LET r == ret[c][1]
                tl == timeline[c][1]
                outs == {i \in 1 .. Len(tl) : tl[i].gate_state.gate_type = "OUTPUT"}
                last == r.steps[Len(r.steps)]
            IN  /\ (outs # {}) <=> (r.final_carry = 1)
                /\ outs # {} =>
                       /\ outs = {Len(tl)}
                       /\ tl[Len(tl)].gate_state.name = <<"FINAL_CARRY">>
                       /\ tl[Len(tl)].bit_index = last.bit_index
                       /\ tl[Len(tl)].bit_index = Len(r.steps) - 1
                       /\ tl[Len(tl)].gate_state.inputs =
                              << <<"CarryOut", r.final_carry>> >>
                       /\ tl[Len(tl)].gate_state.output = r.final_carry
                       /\ tl[Len(tl)].step = <<last>>

\* The timeline of an 8-bit addition with a final carry ends with the
\* OUTPUT event on bit 7.
C9_Witness ==
    /\ Built(1)
    /\ numeric_type[1] = UInt8Type
    /\ lhs[1] = 200 /\ rhs[1] = 100
    /\ timeline[1][1][41].gate_state.gate_type = "OUTPUT"
    /\ timeline[1][1][41].bit_index = 7

GateOrder == <<"A_XOR_B", "SUM", "CARRY_GEN", "CARRY_PROP", "CARRY_OUT">>

\* C10: the event at index 5 * s + g (g in 0..4) belongs to bit s, shows
\* gate g of step s and refers back to step s; the gates of a bit come in
\* the order AxorB, SUM, CARRY_GEN, CARRY_PROP, CARRY_OUT.
C10_EventOrder ==
    \A c \in Callers :
        Built(c) =>
            LET r == ret[c][1]
                tl == timeline[c][1]
            IN  \A s \in 0 .. (Len(r.steps) - 1) : \A g \in 0 .. 4 :
                    LET e == tl[5 * s + g + 1]
                    IN  /\ e.bit_index = s
                        /\ e.gate_state = r.steps[s + 1].gate_states[g + 1]
                        /\ e.step = <<r.steps[s + 1]>>
                        /\ e.gate_state.name = <<GateOrder[g + 1], s>>

\* A timeline of several bits: its event 7 is the carry-generate gate of
\* bit 1.
C10_Witness ==
    /\ Built(1)
    /\ Len(ret[1][1].steps) >= 2
    /\ timeline[1][1][8].bit_index = 1
    /\ timeline[1][1][8].gate_state.name = <<"CARRY_GEN", 1>>

\* The names and aliases the registry is documented to hold, with the width
\* and the signedness of each.
Documented(names, canonical, bits, signed) ==
    [names |-> names, canonical |-> canonical, bits |-> bits, signed |-> signed]

DocumentedTypes ==
    { Documented({k_int, k_python_int}, k_int, None, TRUE),
      Documented({k_int8_t, k_int8}, k_int8_t, <<8>>, TRUE),
      Documented({k_int16_t, k_int16}, k_int16_t, <<16>>, TRUE),
      Documented({k_int32_t, k_int32}, k_int32_t, <<32>>, TRUE),
      Documented({k_int64_t, k_int64}, k_int64_t, <<64>>, TRUE),
      Documented({k_uint8_t, k_uint8}, k_uint8_t, <<8>>, FALSE),
      Documented({k_uint16_t, k_uint16}, k_uint16_t, <<16>>, FALSE),
      Documented({k_uint32_t, k_uint32}, k_uint32_t, <<32>>, FALSE),
      Documented({k_uint64_t, k_uint64}, k_uint64_t, <<64>>, FALSE),
      Documented({k_size_t}, k_size_t, <<64>>, FALSE),
      Documented({k_uint}, k_uint, <<32>>, FALSE),
      Documented({k_long}, k_long, <<64>>, TRUE),
      Documented({k_unsigned_long, k_ulong}, k_unsigned_long, <<64>>, FALSE) }

DocumentedNames == UNION {d.names : d \in DocumentedTypes}

\* C11: looking up a registered name or alias, in any mix of upper and
\* lower case, returns the type with the documented width and signedness,
\* the same type as the canonical name gives, and the registry stays as it
\* was built.
C11_LookupFindsRegisteredType ==
    /\ NUMERIC_TYPES = _make_types
    /\ DOMAIN NUMERIC_TYPES = DocumentedNames
    /\ lookup_name # None =>
           \A d \in DocumentedTypes : \A k \in d.names : \A m \in CaseMasks :
               lookup_name[1] = ApplyCase(k, m) =>
                   /\ lookup_err = None
                   /\ lookup_ret # None
                   /\ lookup_ret[1].bits = d.bits
                   /\ lookup_ret[1].signed = d.signed
                   /\ lookup_ret[1] = NUMERIC_TYPES[d.canonical]

\* The alias "ulong", written "UlOnG", was looked up and gave the 64-bit
\* unsigned type named "unsigned long".
C11_Witness ==
    /\ lookup_name = << <<"U", "l", "O", "n", "G">> >>
    /\ lookup_ret # None
    /\ lookup_ret[1] = NumericType("unsigned long", <<64>>, FALSE)

\* C12: looking up a name that is not registered raises the unknown-type
\* error, returns no type, and the error lists every registered name and
\* alias.
C12_UnknownNameRaises ==
    (lookup_name # None /\ lookup_name[1] \in UnknownNames) =>
        /\ lookup_ret = None
        /\ lookup_err # None
        /\ lookup_err[1].exception = "KeyError"
        /\ lookup_err[1].name = lookup_name[1]
        /\ {lookup_err[1].available[i] : i \in 1 .. Len(lookup_err[1].available)}
               = DocumentedNames
        /\ Len(lookup_err[1].available) = Cardinality(DocumentedNames)

\* "int9_t" was looked up and refused.
C12_Witness ==
    /\ lookup_name = << <<"i", "n", "t", "9", "_", "t">> >>
    /\ lookup_ret = None
    /\ lookup_err # None
    /\ Len(lookup_err[1].available) = 23

\* C13: the operand-range error names the operand at fault (left or
\* right), its value, and the type's valid range, i.e. its min and max.
C13_ErrorNamesOperandValueRange ==
    \A c \in Callers :
        err[c] # None =>
            LET msg == OperandMessage(err[c][1])
                parts == {msg[i] : i \in 1 .. Len(msg)}
                t == numeric_type[c]
                leftAtFault == lhs[c] < min_value(t) \/ lhs[c] > max_value(t)
            IN  /\ (IF leftAtFault THEN "Left" ELSE "Right") \in parts
                /\ ToString(IF leftAtFault THEN lhs[c] ELSE rhs[c]) \in parts
                /\ ToString(min_value(t)) \in parts
                /\ ToString(max_value(t)) \in parts

Called(method) == op_call # None /\ op_call[1].method = method

\* The documented range of a fixed-width type of n bits.
DocumentedMin(t) == IF t.signed THEN -(2 ^ (t.bits[1] - 1)) ELSE 0
DocumentedMax(t) == IF t.signed THEN 2 ^ (t.bits[1] - 1) - 1 ELSE 2 ^ t.bits[1] - 1

\* C14: for a fixed-width type of n bits normalize(v) lies in the type's
\* range and is congruent to v modulo 2^n, so it leaves an in-range v as it
\* is and normalizing twice is normalizing once; for the unbounded type
\* normalize is the identity.
C14_NormalizeWrapsIntoRange ==
    Called("normalize") =>
        LET t == op_call[1].t
            v == op_call[1].value
            r == op_ret[1]
        IN  /\ op_err = None
            /\ IF IsFixed(t)
               THEN /\ DocumentedMin(t) <= r /\ r <= DocumentedMax(t)
                    /\ min_value(t) = DocumentedMin(t)
                    /\ max_value(t) = DocumentedMax(t)
                    /\ (r - v) % (2 ^ t.bits[1]) = 0
                    /\ (DocumentedMin(t) <= v /\ v <= DocumentedMax(t)) => r = v
                    /\ normalize(t, r) = r
               ELSE r = v

\* int8_t.normalize(200) returned -56.
C14_Witness ==
    /\ Called("normalize")
    /\ op_call[1].t = Int8Type
    /\ op_call[1].value = 200
    /\ op_ret = <<-56>>

\* C15 as stated: for every type, fixed-width or unbounded, encode fails
\* when the value is outside range(t) and otherwise returns a non-negative
\* bit pattern, which is value mod 2^n for a fixed-width type of n bits.
C15_EncodeChecksEveryType ==
    Called("encode") =>
        LET t == op_call[1].t
            v == op_call[1].value
        IN  IF v < min_value(t) \/ v > max_value(t)
            THEN op_err # None /\ op_ret = None
            ELSE /\ op_err = None
                 /\ op_ret # None
                 /\ op_ret[1] >= 0
                 /\ IsFixed(t) => op_ret[1] = v % (2 ^ t.bits[1])

\* C15, amended: for a fixed-width type of n bits encode fails with the
\* range error when the value is outside range(t) and otherwise returns
\* value mod 2^n, which is not negative; for the unbounded type encode
\* never fails and returns the value as it is, negative or outside the
\* sentinel range included.
C15_EncodeChecksFixedTypes ==
    Called("encode") =>
        LET t == op_call[1].t
            v == op_call[1].value
        IN  IF IsFixed(t)
            THEN IF v < DocumentedMin(t) \/ v > DocumentedMax(t)
                 THEN /\ op_ret = None
                      /\ op_err # None
                      /\ op_err[1].exception = "OverflowError"
                      /\ op_err[1].value = v
                      /\ op_err[1].min_val = DocumentedMin(t)
                      /\ op_err[1].max_val = DocumentedMax(t)
                 ELSE /\ op_err = None
                      /\ op_ret # None
                      /\ op_ret[1] >= 0
                      /\ op_ret[1] = v % (2 ^ t.bits[1])
            ELSE op_err = None /\ op_ret = <<v>>

\* int.encode(-129) returned -129: a negative value outside the sentinel
\* range, returned unchanged.
C15_Witness ==
    /\ Called("encode")
    /\ op_call[1].t = IntType
    /\ op_call[1].value = -129
    /\ op_call[1].value < min_value(IntType)
    /\ op_ret = <<-129>>
    /\ op_err = None

\* C16: two calls of simulate_addition with the same lhs, rhs and type,
\* whatever their order, their interleaving and the calls made before
\* them, end with equal results (result, overflow, steps with their gate
\* states, result_bits, final_carry) or with the same error.
C16_SameInputsSameOutcome ==
    \A c1 \in Callers : \A c2 \in Callers :
        ( /\ Ended(c1) /\ Ended(c2)
          /\ lhs[c1] = lhs[c2] /\ rhs[c1] = rhs[c2]
          /\ numeric_type[c1] = numeric_type[c2] ) =>
            /\ ret[c1] = ret[c2]
            /\ err[c1] = err[c2]
            /\ (ret[c1] # None) # (err[c1] # None)

\* Caller 1 is at its second call and caller 2 at its first, both ended
\* with a result for the same inputs.
C16_Witness ==
    /\ ncalls[1] = 2 /\ ncalls[2] = 1
    /\ Ended(1) /\ Ended(2)
    /\ lhs[1] = 3 /\ rhs[1] = -1 /\ numeric_type[1] = IntType
    /\ lhs[2] = 3 /\ rhs[2] = -1 /\ numeric_type[2] = IntType
    /\ ret[1] # None
    /\ ret[1] = ret[2]

\* C18: for a fixed-width type the result_bits recomputed from
\* (lhs + rhs) mod 2^width has exactly width bits and equals, bit for bit,
\* the sum bits of the ripple steps.
C18_ResultBitsMatchRipple ==
    \A c \in Callers :
        (Returned(c) /\ IsFixed(numeric_type[c])) =>
            LET r == ret[c][1]
                w == numeric_type[c].bits[1]
                pattern == (lhs[c] + rhs[c]) % (2 ^ w)
            IN  /\ Len(r.result_bits) = w
                /\ Len(r.steps) = w
                /\ \A i \in 1 .. w :
                       /\ r.result_bits[i] = r.steps[i].sum_bit
                       /\ r.result_bits[i] = (pattern \div (2 ^ (i - 1))) % 2

\* int8_t -100 + -100 wraps to 56 = 0b00111000, and the steps' sum bits
\* spell the same pattern.
C18_Witness ==
    /\ Returned(1)
    /\ numeric_type[1] = Int8Type
    /\ lhs[1] = -100 /\ rhs[1] = -100
    /\ ret[1][1].result = 56
    /\ ret[1][1].result_bits = <<0, 0, 0, 1, 1, 1, 0, 0>>
    /\ ret[1][1].steps[4].sum_bit = 1

GateKinds == <<"XOR", "XOR", "AND", "AND", "OR">>

\* The output of a gate of the given kind on two input bits.
GateFn(kind, a, b) ==
    CASE kind = "XOR" -> IF a # b THEN 1 ELSE 0
      [] kind = "AND" -> IF a = 1 /\ b = 1 THEN 1 ELSE 0
      [] kind = "OR" -> IF a = 1 \/ b = 1 THEN 1 ELSE 0

\* C19: every step holds five gate states, AxorB (XOR), SUM (XOR),
\* CARRY_GEN (AND), CARRY_PROP (AND), CARRY_OUT (OR) in that order; the
\* inputs recorded are the values each gate consumed, every output is the
\* gate's kind applied to its two recorded inputs, the SUM output is the
\* step's sum_bit and the CARRY_OUT output its carry_out.
C19_GateStatesOfAStep ==
    \A c \in Callers : \A i \in 1 .. Len(steps[c]) :
        LET s == steps[c][i]
            g == s.gate_states
            A == lhs_bits[c][i]
            B == rhs_bits[c][i]
            values(k) == <<g[k].inputs[1][2], g[k].inputs[2][2]>>
        IN  /\ Len(g) = 5
            /\ \A k \in 1 .. 5 :
                   /\ g[k].name = <<GateOrder[k], i - 1>>
                   /\ g[k].gate_type = GateKinds[k]
                   /\ Len(g[k].inputs) = 2
                   /\ g[k].output = GateFn(g[k].gate_type, values(k)[1], values(k)[2])
            /\ values(1) = <<A, B>>
            /\ values(2) = <<g[1].output, s.carry_in>>
            /\ values(3) = <<A, B>>
            /\ values(4) = <<g[1].output, s.carry_in>>
            /\ values(5) = <<g[3].output, g[4].output>>
            /\ g[2].output = s.sum_bit
            /\ g[5].output = s.carry_out

\* A step that adds 1 + 1 with carry-in 1: the carry is generated, not
\* propagated, and the SUM gate sees 0 and the carry-in.
C19_Witness ==
    \E i \in 1 .. Len(steps[1]) :
        LET g == steps[1][i].gate_states
        IN  /\ g[1].inputs = << <<"A", 1>>, <<"B", 1>> >>
            /\ g[2].inputs = << <<"XOR", 0>>, <<"CarryIn", 1>> >>
            /\ g[2].output = 1
            /\ g[5].inputs = << <<"Gen", 1>>, <<"Prop", 0>> >>
            /\ g[5].output = 1

\* C20: for a fixed-width type overflow is true exactly when lhs + rhs is
\* outside the type's range: an unsigned addition has final carry 1
\* exactly when the sum exceeds max, a signed one has different carries
\* into and out of the top bit exactly when the sum is outside [min, max],
\* and neither condition is true without the range condition.
C20_OverflowIsRangeOverflow ==
    \A c \in Callers :
        (Returned(c) /\ IsFixed(numeric_type[c])) =>
            LET r == ret[c][1]
                t == numeric_type[c]
                sum == lhs[c] + rhs[c]
                outside == sum < DocumentedMin(t) \/ sum > DocumentedMax(t)
                top == r.steps[Len(r.steps)]
            IN  /\ r.overflow <=> outside
                /\ ~t.signed => (r.final_carry = 1 <=> sum > DocumentedMax(t))
                /\ t.signed => (top.carry_in # top.carry_out <=> outside)
                /\ carry_overflow[c] => range_overflow[c]
                /\ signed_overflow[c] => range_overflow[c]
                /\ range_overflow[c] <=> outside

\* int8_t -128 + -1: the sum is below min, the carry into the top bit is
\* 0 and the carry out of it 1.
C20_Witness ==
    /\ Returned(1)
    /\ numeric_type[1] = Int8Type
    /\ lhs[1] = -128 /\ rhs[1] = -1
    /\ ret[1][1].overflow
    /\ ret[1][1].steps[8].carry_in = 0
    /\ ret[1][1].steps[8].carry_out = 1
    /\ signed_overflow[1] /\ range_overflow[1]

\* C17: when the steps of two calls interleave in any order, each call
\* ends as it ends when it runs alone: with the same AdditionResult, or
\* with the same error.
C17_InterleavedAsAlone ==
    \A c \in Callers :
        Ended(c) =>
            /\ ret[c] = RunAlone(lhs[c], rhs[c], numeric_type[c]).ret
            /\ err[c] = RunAlone(lhs[c], rhs[c], numeric_type[c]).err

\* Caller 2's call has returned while caller 1's call, with other inputs,
\* is in the middle of its loop with a carry pending.
C17_Witness ==
    /\ ncalls[1] = 1 /\ ncalls[2] = 1
    /\ pc[1] = "loop" /\ idx[1] = 1 /\ carry[1] = 1
    /\ lhs[1] = 3 /\ rhs[1] = 3 /\ numeric_type[1] = IntType
    /\ pc[2] = "returned"
    /\ lhs[2] = -1 /\ rhs[2] = 3 /\ numeric_type[2] = IntType
    /\ ret[2][1].result = 2

RECURSIVE Weighted(_, _)
\* bits[1] * 2^0 + ... + bits[n] * 2^(n-1)
Weighted(bits, n) ==
    IF n = 0 THEN 0 ELSE Weighted(bits, n - 1) + bits[n] * 2 ^ (n - 1)

\* A little-endian bit vector read as an unsigned number.
Unsigned(bits) == Weighted(bits, Len(bits))

\* A non-empty little-endian bit vector read as a two's-complement number:
\* the top bit weighs -2^(n-1).
TwosComplement(bits) ==
    Weighted(bits, Len(bits) - 1) - bits[Len(bits)] * 2 ^ (Len(bits) - 1)

\* v is a value of the n-bit two's-complement range.
FitsSigned(v, n) == -(2 ^ (n - 1)) <= v /\ v <= 2 ^ (n - 1) - 1

\* C21: with the unbounded type and any operands, negative ones included,
\* the chosen bit_width is wide enough for lhs, rhs and lhs + rhs as
\* two's-complement numbers, and the steps' sum bits, which are the first
\* bit_width entries of result_bits, decode as a bit_width-bit
\* two's-complement number to lhs + rhs.
C21_SumBitsDecodeToSum ==
    \A c \in Callers :
        (Returned(c) /\ ~IsFixed(numeric_type[c])) =>
            LET r == ret[c][1]
                w == bit_width[c]
                sums == [i \in 1 .. Len(r.steps) |-> r.steps[i].sum_bit]
            IN  /\ w >= 1
                /\ FitsSigned(lhs[c], w)
                /\ FitsSigned(rhs[c], w)
                /\ FitsSigned(lhs[c] + rhs[c], w)
                /\ Len(r.result_bits) >= w
                /\ SubSeq(r.result_bits, 1, w) = sums
                /\ TwosComplement(SubSeq(r.result_bits, 1, w)) = lhs[c] + rhs[c]

\* -7 + -9 with the unbounded type: six sum bits 110000 (-16) under a
\* final carry.
C21_Witness ==
    /\ Returned(1)
    /\ numeric_type[1] = IntType
    /\ lhs[1] = -7 /\ rhs[1] = -9
    /\ bit_width[1] = 6
    /\ ret[1][1].final_carry = 1
    /\ SubSeq(ret[1][1].result_bits, 1, 6) = <<0, 0, 0, 0, 1, 1>>

\* C22: with the unbounded type a final carry of 1 needs a negative
\* operand; for lhs >= 0 and rhs >= 0 the final carry is 0, result_bits has
\* exactly bit_width bits, which decode both as an unsigned and as a
\* two's-complement number to lhs + rhs, and the timeline built from the
\* result has no FINAL_CARRY event.
C22_NoCarryWithoutNegativeOperand ==
    \A c \in Callers :
        (Returned(c) /\ ~IsFixed(numeric_type[c])) =>
            LET r == ret[c][1]
            IN  /\ r.final_carry = 1 => (lhs[c] < 0 \/ rhs[c] < 0)
                /\ (lhs[c] >= 0 /\ rhs[c] >= 0) =>
                       /\ r.final_carry = 0
                       /\ Len(r.result_bits) = bit_width[c]
                       /\ Unsigned(r.result_bits) = lhs[c] + rhs[c]
                       /\ TwosComplement(r.result_bits) = lhs[c] + rhs[c]
                       /\ Built(c) =>
                              \A i \in 1 .. Len(timeline[c][1]) :
                                  /\ timeline[c][1][i].gate_state.name
                                         # <<"FINAL_CARRY">>
                                  /\ timeline[c][1][i].gate_state.gate_type
                                         # "OUTPUT"

\* 7 + 9 with the unbounded type: six bits 010000 (16), no final carry and
\* a timeline of the 30 gate events only.
C22_Witness ==
    /\ Built(1)
    /\ numeric_type[1] = IntType
    /\ lhs[1] = 7 /\ rhs[1] = 9
    /\ ret[1][1].final_carry = 0
    /\ ret[1][1].result_bits = <<0, 0, 0, 0, 1, 0>>
    /\ Len(timeline[1][1]) = 30

\* The timeline being played back.
Playing == self.timeline # None

\* Playback has come to its end: every event highlighted in order, the
\* final values shown, and no callback left.
PlayedOut ==
    /\ Playing
    /\ canvas.finalized
    /\ canvas.highlighted = self.timeline[1]
    /\ self.event_index = Len(self.timeline[1])
    /\ self.after_id = None
    /\ root.timers = {}

\* What holds of the playback at every moment.
PlaybackInOrder ==
    /\ Cardinality(root.timers) <= 1
    /\ root.timers = IF self.after_id = None THEN {} ELSE {self.after_id[1]}
    /\ ~Playing =>
           /\ canvas.highlighted = <<>>
           /\ self.after_id = None
    /\ Playing =>
           LET tl == self.timeline[1]
               shown == canvas.highlighted
           IN  /\ self.event_index <= Len(tl)
               /\ Len(shown) = self.event_index
               /\ \A i \in 1 .. Len(shown) : shown[i] = tl[i]
               /\ \A i \in 1 .. Len(shown) : shown[i].tick = i - 1
               /\ \A i, j \in 1 .. Len(shown) : shown[i] = shown[j] => i = j
               /\ canvas.finalized => self.event_index = Len(tl)
               /\ self.after_id = None <=> canvas.finalized

\* C23: after a successful start the timer callbacks highlight the events
\* of the timeline in index order 0, 1, ..., len(timeline) - 1, each once;
\* event_index never exceeds len(timeline) and at most one callback is
\* scheduled at any time; and, the timer firing, a playback that is neither
\* reset nor followed by another start comes to its end: the visuals
\* finalized, every event highlighted, after_id None and no callback
\* scheduled.
C23_PlaybackInOrderToTheEnd ==
    /\ []PlaybackInOrder
    /\ \A g \in 1 .. MaxStarts :
           (nstarts = g /\ Playing) ~> (nstarts # g \/ ~Playing \/ PlayedOut)

\* The playback of -3 + -1 at its end: 21 events highlighted, the last one
\* the final carry, by 22 callbacks.
C23_Witness ==
    /\ PlayedOut
    /\ nstarts = 1
    /\ self.addition[1].lhs = -3 /\ self.addition[1].rhs = -1
    /\ Len(canvas.highlighted) = 21
    /\ canvas.highlighted[21].gate_state.name = <<"FINAL_CARRY">>
    /\ root.serial = 22

\* What Python's int(text, 0) makes of the operand texts used.
MeantInt(text) ==
    CASE text = <<"-", "1">> -> <<-1>>
      [] text = <<" ", "-", "0", "b", "1", "1", " ">> -> <<-3>>
      [] text = <<"0", "x", "1">> -> <<1>>
      [] text = <<"0", "_", "0">> -> <<0>>
      [] text = <<"0">> -> <<0>>
      [] text = <<"3", "0", "0">> -> <<300>>
      [] text = <<"1", "x">> -> None
      [] text = <<>> -> None

\* The registered type the type texts used stand for.
MeantType(text) ==
    CASE text = k_int -> <<NumericType("int", None, TRUE)>>
      [] text = <<" ", "P", "y", "t", "h", "o", "n", "-", "I", "n", "t", " ">> ->
             <<NumericType("int", None, TRUE)>>
      [] text = k_uint8_t -> <<NumericType("uint8_t", <<8>>, FALSE)>>
      [] text = k_uint8 -> <<NumericType("uint8_t", <<8>>, FALSE)>>
      [] text = <<"i", "n", "t", "9", "_", "t">> -> None

\* The value v is in the range of the type t.
Fits(v, t) ==
    t.bits = None \/ (DocumentedMin(t) <= v /\ v <= DocumentedMax(t))

\* The texts fail validation: an operand text is no number, the type name
\* is not registered, or an operand is outside the fixed-width type's range.
FailsValidation(text) ==
    LET l == MeantInt(text.left)
        r == MeantInt(text.right)
        t == MeantType(text.type_name)
    IN  \/ l = None
        \/ r = None
        \/ t = None
        \/ ~Fits(l[1], t[1])
        \/ ~Fits(r[1], t[1])

\* C24: a start_animation whose texts fail validation shows an error and
\* leaves timeline, addition, event_index, after_id, the scheduled callback
\* and the canvas as they were; one whose texts pass shows no error and
\* replaces the state: the previous callback is cancelled, addition and
\* timeline are those of the new operands and type, event_index is 0 and one
\* new callback is scheduled.
C24_FailedStartChangesNothing ==
    [][nstarts' # nstarts =>
          LET text == start_call'[1]
          IN  IF FailsValidation(text)
              THEN /\ messagebox' # None
                   /\ self' = self
                   /\ root' = root
                   /\ canvas' = canvas
              ELSE /\ messagebox' = None
                   /\ self'.addition # None
                   /\ self'.addition[1].lhs = MeantInt(text.left)[1]
                   /\ self'.addition[1].rhs = MeantInt(text.right)[1]
                   /\ self'.addition[1].numeric_type = MeantType(text.type_name)[1]
                   /\ self'.timeline = <<SimulationTimeline(self'.addition[1])>>
                   /\ self'.event_index = 0
                   /\ self'.after_id = << <<"after", root.serial>> >>
                   /\ root'.timers = {<<"after", root.serial>>}
                   /\ canvas' = [highlighted |-> <<>>, finalized |-> FALSE]
    ]_vars

\* A playback of -3 + -1 that has gone on, five events highlighted and the
\* sixth callback scheduled, after a second Start with an operand outside
\* uint8_t showed its error.
C24_Witness ==
    /\ nstarts = 2
    /\ messagebox # None
    /\ messagebox[1].error = "OverflowError"
    /\ start_call[1].type_name = k_uint8_t
    /\ Playing
    /\ self.addition[1].lhs = -3 /\ self.addition[1].rhs = -1
    /\ self.event_index = 5
    /\ Len(canvas.highlighted) = 5
    /\ root.serial = 6
    /\ root.timers = {<<"after", 5>>}
    /\ self.after_id = << <<"after", 5>> >>

====
